---------------------------- MODULE Spec2Model ----------------------------
(***************************************************************************)
(* A model of thinc/loss.py: the loss kernels CategoricalCrossentropy,     *)
(* SequenceCategoricalCrossentropy, L2Distance and CosineDistance.         *)
(*                                                                         *)
(* A caller holds one kernel (self) and calls its methods on batches.      *)
(* Every method is an operator that computes what the Python code          *)
(* computes, over exact numbers; every call is one action that stores the  *)
(* arguments as passed (argv), the caller's argument objects after the     *)
(* call (objs) and what the call returned or raised (ret).                 *)
(*                                                                         *)
(* Numbers are exact: the value of [n, d, e] is (n / d) * Eps^e, where     *)
(* Eps is the constant 1e-8 that CosineDistance adds to its operands.      *)
(* Floating-point rounding is not modelled.                                *)
(***************************************************************************)
EXTENDS Integers, Sequences, FiniteSets, TLC

VARIABLES self, constructed, pc, op, argv, objs, ret

vars == <<self, constructed, pc, op, argv, objs, ret>>

---------------------------------------------------------------------------
(* Bounds of the model.                                                    *)

\* Longest list of integer or string labels passed as truths.
MaxLabels == 2

\* Longest list of per-step guesses or truths passed to the sequence kernel.
MaxSeq == 3

---------------------------------------------------------------------------
(* Exact numbers.                                                          *)

\* 1 / 1e-8: the stabilizing constant of CosineDistance is 1 / EpsInv.
EpsInv == 100000000

Abs(k) == IF k < 0 THEN -k ELSE k

RECURSIVE GCD(_, _)
GCD(a, b) == IF b = 0 THEN a ELSE GCD(b, a % b)

RECURSIVE Pow(_, _)
Pow(b, k) == IF k = 0 THEN 1 ELSE b * Pow(b, k - 1)

\* The number (n / d) * Eps^e in normal form: lowest terms, d > 0, and zero
\* written [0, 1, 0].
Q(n, d, e) ==
    IF n = 0 THEN [n |-> 0, d |-> 1, e |-> 0]
    ELSE LET g == GCD(Abs(n), Abs(d))
             s == IF d < 0 THEN -1 ELSE 1
         IN  [n |-> s * (n \div g), d |-> s * (d \div g), e |-> e]

Num(k) == Q(k, 1, 0)
Zero == Num(0)
One == Num(1)
Eps == Q(1, 1, 1)

\* x rewritten with exponent e >= x.e (Eps^x.e = EpsInv^(e - x.e) * Eps^e).
Lift(x, e) == [n |-> x.n * Pow(EpsInv, e - x.e), d |-> x.d, e |-> e]

NAdd(x, y) ==
    IF x.n = 0 THEN y
    ELSE IF y.n = 0 THEN x
    ELSE LET e == IF x.e > y.e THEN x.e ELSE y.e
             a == Lift(x, e)
             b == Lift(y, e)
         IN  Q(a.n * b.d + b.n * a.d, a.d * b.d, e)

NNeg(x) == [x EXCEPT !.n = -x.n]
NSub(x, y) == NAdd(x, NNeg(y))
NMul(x, y) == Q(x.n * y.n, x.d * y.d, x.e + y.e)
NDiv(x, y) == Q(x.n * y.d, x.d * y.n, x.e - y.e)
NAbs(x) == [x EXCEPT !.n = Abs(x.n)]
NSquare(x) == NMul(x, x)

\* The exact square root; the model only takes roots of exact squares.
ISqrt(k) == CHOOSE r \in 0..k : r * r = k
NSqrt(x) == [n |-> ISqrt(x.n), d |-> ISqrt(x.d), e |-> x.e \div 2]

RECURSIVE SumSeq(_)
SumSeq(s) == IF Len(s) = 0 THEN Zero ELSE NAdd(Head(s), SumSeq(Tail(s)))

---------------------------------------------------------------------------
(* Arrays: a 2-d array is a sequence of rows, a 1-d array a sequence.      *)

Shape(t) == <<Len(t), IF Len(t) = 0 THEN 0 ELSE Len(t[1])>>

\* The function f on 1..n as the tuple of its values, each computed once.
Tuple(f) == f \o <<>>

\* a - b, elementwise.
ArrSub(a, b) ==
    Tuple([i \in 1..Len(a) |->
              Tuple([j \in 1..Len(a[i]) |-> NSub(a[i][j], b[i][j])])])

\* a * b, elementwise.
ArrMul(a, b) ==
    Tuple([i \in 1..Len(a) |->
              Tuple([j \in 1..Len(a[i]) |-> NMul(a[i][j], b[i][j])])])

\* t + c for a scalar c.
ArrAddScalar(t, c) ==
    Tuple([i \in 1..Len(t) |-> Tuple([j \in 1..Len(t[i]) |-> NAdd(t[i][j], c)])])

\* c - t for a scalar c.
ArrRsub(c, t) ==
    Tuple([i \in 1..Len(t) |-> Tuple([j \in 1..Len(t[i]) |-> NSub(c, t[i][j])])])

\* -t
ArrNeg(t) ==
    Tuple([i \in 1..Len(t) |-> Tuple([j \in 1..Len(t[i]) |-> NNeg(t[i][j])])])

\* xp.abs(t)
ArrAbs(t) ==
    Tuple([i \in 1..Len(t) |-> Tuple([j \in 1..Len(t[i]) |-> NAbs(t[i][j])])])

\* t ** 2
ArrSquare(t) ==
    Tuple([i \in 1..Len(t) |-> Tuple([j \in 1..Len(t[i]) |-> NSquare(t[i][j])])])

\* t / k for a Python integer k (a batch size).
DivInt(t, k) ==
    Tuple([i \in 1..Len(t) |->
              Tuple([j \in 1..Len(t[i]) |-> NDiv(t[i][j], Num(k))])])

\* t.sum(axis=1): one number per row.
RowSums(t) == Tuple([i \in 1..Len(t) |-> SumSeq(t[i])])

\* t.sum(): the sum of all elements.
SumAll(t) == SumSeq(RowSums(t))

\* (t ** 2).sum()
SumSquares(t) == SumAll(ArrSquare(t))

\* xp.abs(t).sum()
SumAbs(t) == SumAll(ArrAbs(t))

\* t.any(): whether some element is non-zero.
any(t) == \E i \in 1..Len(t) : \E j \in 1..Len(t[i]) : t[i][j].n # 0

\* A Python bool used as a number (True > 1, False < 0).
BoolAsInt(b) == IF b THEN 1 ELSE 0

AllZero(t) == ~any(t)

---------------------------------------------------------------------------
(* What a call yields: a value, or an exception.  Every exception the file *)
(* raises itself is a ValueError; they are told apart by their message.    *)

NoExc == "none"
ShapeError == "ValueError: mismatched shapes"
LengthError == "ValueError: guesses and truths must be same length"
ConfigurationError == "ValueError: list of strings without names"
RangeError == "ValueError: outside the [0,1] interval"
KeyError == "KeyError"

Return(v) == [exc |-> NoExc, val |-> <<v>>]
Raise(e) == [exc |-> e, val |-> <<>>]

\* An optional value: <<>> is None, <<v>> is v.
None == <<>>
Some(v) == <<v>>

---------------------------------------------------------------------------
(* Arguments.  Truths are a Python list of strings or of integers, a 1-d   *)
(* integer array, or a 2-d float array; missing is None, a float32 mask    *)
(* (dtype "f") or a 1-d integer array of row indices (dtype "i").  Indices *)
(* and class labels count from 0, as in Python.                            *)

ListStr(v) == [kind |-> "list_str", strs |-> v]
ListInt(v) == [kind |-> "list_int", ints |-> v]
Ints1d(v) == [kind |-> "ints1d", ints |-> v]
Floats2d(v) == [kind |-> "floats2d", array |-> v]

NoMissing == [dtype |-> "none"]
FloatMask(v) == [dtype |-> "f", mask |-> v]
IntMask(v) == [dtype |-> "i", rows |-> v]

isinstance_list(truths) == truths.kind \in {"list_str", "list_int"}

ndim(truths) == IF truths.kind = "floats2d" THEN 2 ELSE 1

---------------------------------------------------------------------------
(* CategoricalCrossentropy                                                 *)

\* Mutant of name_to_i_of: indices counted from 1.
name_to_i_of_from_one(names) ==
    [nm \in {names[k] : k \in 1..Len(names)} |->
        CHOOSE i \in 1..Len(names) :
            /\ names[i] = nm
            /\ \A k \in 1..Len(names) : names[k] = nm => k <= i]

\* {name: i for i, name in enumerate(names)}: a repeated name keeps its last
\* index.
name_to_i_of(names) ==
    [nm \in {names[k] : k \in 1..Len(names)} |->
        CHOOSE i \in 0..(Len(names) - 1) :
            /\ names[i + 1] = nm
            /\ \A k \in 1..Len(names) : names[k] = nm => k <= i + 1]

\* __init__(normalize, names); names is None or Some(list of names).
CategoricalCrossentropy_init(normalize, names) ==
    [kind |-> "CategoricalCrossentropy",
     normalize |-> normalize,
     names |-> names,
     name_to_i |-> IF names # None THEN Some(name_to_i_of(names[1])) ELSE None]

\* util.to_categorical(Y, n_classes): one row per label, 1.0 at the label's
\* position and 0.0 elsewhere.  Labels are within 0..n_classes-1.
to_categorical(Y, n_classes) ==
    Tuple([i \in 1..Len(Y) |->
        Tuple([j \in 1..n_classes |-> IF j - 1 = Y[i] THEN One ELSE Zero])])

convert_truths(slf, truths, guesses) ==
    LET n_classes == Shape(guesses)[2]
        strs == /\ isinstance_list(truths)
                /\ truths.kind = "list_str"
                /\ Len(truths.strs) # 0
    IN  IF strs /\ slf.names = None
        THEN Raise(ConfigurationError)
        ELSE IF strs /\ \E k \in 1..Len(truths.strs) :
                            truths.strs[k] \notin DOMAIN slf.name_to_i[1]
        THEN Raise(KeyError)
        ELSE IF ndim(truths) # 2
        THEN LET ints == IF strs
                         THEN [k \in 1..Len(truths.strs) |->
                                  slf.name_to_i[1][truths.strs[k]]]
                         ELSE truths.ints
             IN  Return(to_categorical(ints, n_classes))
        ELSE Return(truths.array)

\* Mutant of _make_mask: the rows of an index mask are never set.
_make_mask_unset(missing, shape) ==
    IF missing.dtype = "f"
    THEN missing.mask
    ELSE Tuple([i \in 1..shape[1] |-> Tuple([j \in 1..shape[2] |-> Zero])])

\* xp.zeros(shape) with mask[missing] = 1 (whole rows), or the float mask
\* itself.
_make_mask(missing, shape) ==
    IF missing.dtype = "f"
    THEN missing.mask
    ELSE Tuple([i \in 1..shape[1] |->
            Tuple([j \in 1..shape[2] |->
                IF \E k \in 1..Len(missing.rows) : missing.rows[k] = i - 1
                THEN One ELSE Zero])])

CategoricalCrossentropy_get_grad(slf, guesses, truths, missing) ==
    LET conv == convert_truths(slf, truths, guesses)
    IN  IF conv.exc # NoExc THEN conv
        ELSE LET target == conv.val[1]
             IN  IF Shape(guesses) # Shape(target)
                 THEN Raise(ShapeError)
                 ELSE IF \/ BoolAsInt(any(guesses)) > 1
                         \/ BoolAsInt(any(guesses)) < 0
                 THEN Raise(RangeError)
                 ELSE IF \/ BoolAsInt(any(target)) > 1
                         \/ BoolAsInt(any(target)) < 0
                 THEN Raise(RangeError)
                 ELSE LET difference == ArrSub(guesses, target)
                          masked ==
                              IF missing.dtype # "none"
                              THEN LET mask == _make_mask(missing, Shape(guesses))
                                   IN  ArrMul(difference, ArrRsub(One, mask))
                              ELSE difference
                      IN  IF slf.normalize
                          THEN Return(DivInt(masked, Shape(guesses)[1]))
                          ELSE Return(masked)

\* Mutant of _get_loss_from_grad: absolute values instead of squares.
_get_loss_from_grad_abs(d_truth) == SumAbs(d_truth)

_get_loss_from_grad(d_truth) == SumSquares(d_truth)

CategoricalCrossentropy_get_loss(slf, guesses, truths, missing) ==
    LET d_truth == CategoricalCrossentropy_get_grad(slf, guesses, truths, missing)
    IN  IF d_truth.exc # NoExc THEN d_truth
        ELSE Return(_get_loss_from_grad(d_truth.val[1]))

\* __call__: the pair (gradient, loss), from one evaluation of the gradient.
CategoricalCrossentropy_call(slf, guesses, truths, missing) ==
    LET d_truth == CategoricalCrossentropy_get_grad(slf, guesses, truths, missing)
    IN  IF d_truth.exc # NoExc THEN d_truth
        ELSE Return(<<d_truth.val[1], _get_loss_from_grad(d_truth.val[1])>>)

---------------------------------------------------------------------------
(* SequenceCategoricalCrossentropy                                         *)

SequenceCategoricalCrossentropy_init(normalize, names) ==
    [kind |-> "SequenceCategoricalCrossentropy",
     cc |-> CategoricalCrossentropy_init(normalize, names)]

Min(a, b) == IF a < b THEN a ELSE b

cc_get_grad(cc, yh, y) == CategoricalCrossentropy_get_grad(cc, yh, y, NoMissing)
cc_get_loss(cc, yh, y) == CategoricalCrossentropy_get_loss(cc, yh, y, NoMissing)

\* for yh, y in zip(guesses, truths): out.append(self.cc.<method>(yh, y)),
\* from pair k on; zip stops at the shorter list, and an exception of a step
\* ends the loop.
RECURSIVE zip_loop(_, _, _, _, _, _)
zip_loop(method, cc, guesses, truths, k, out) ==
    IF k > Min(Len(guesses), Len(truths))
    THEN Return(out)
    ELSE LET step == IF method = "get_grad"
                     THEN cc_get_grad(cc, guesses[k], truths[k])
                     ELSE cc_get_loss(cc, guesses[k], truths[k])
         IN  IF step.exc # NoExc THEN step
             ELSE zip_loop(method, cc, guesses, truths, k + 1,
                           Append(out, step.val[1]))

\* Mutant of get_grad: every step's gradient is divided by the number of
\* steps.
SequenceCategoricalCrossentropy_get_grad_shared(slf, guesses, truths) ==
    IF Len(guesses) # Len(truths)
    THEN Raise(LengthError)
    ELSE LET r == zip_loop("get_grad", slf.cc, guesses, truths, 1, <<>>)
         IN  IF r.exc # NoExc THEN r
             ELSE Return(Tuple([i \in 1..Len(r.val[1]) |->
                             DivInt(r.val[1][i], Len(guesses))]))

SequenceCategoricalCrossentropy_get_grad(slf, guesses, truths) ==
    IF Len(guesses) # Len(truths)
    THEN Raise(LengthError)
    ELSE zip_loop("get_grad", slf.cc, guesses, truths, 1, <<>>)

SequenceCategoricalCrossentropy_get_loss(slf, guesses, truths) ==
    zip_loop("get_loss", slf.cc, guesses, truths, 1, <<>>)

\* Two calls one after the other; an exception of the first ends the call.
Both(grad, loss) ==
    IF grad.exc # NoExc THEN grad
    ELSE IF loss.exc # NoExc THEN loss
    ELSE Return(<<grad.val[1], loss.val[1]>>)

SequenceCategoricalCrossentropy_call(slf, guesses, truths) ==
    Both(SequenceCategoricalCrossentropy_get_grad(slf, guesses, truths),
         SequenceCategoricalCrossentropy_get_loss(slf, guesses, truths))

---------------------------------------------------------------------------
(* L2Distance                                                              *)

L2Distance_init(normalize) == [kind |-> "L2Distance", normalize |-> normalize]

\* Mutant of get_grad: only the row widths are compared, and a shorter
\* batch of truths is broadcast over the guesses.
L2Distance_get_grad_broadcast(slf, guesses, truths) ==
    IF Shape(guesses)[2] # Shape(truths)[2]
    THEN Raise(ShapeError)
    ELSE LET difference ==
                 Tuple([i \in 1..Len(guesses) |->
                     Tuple([j \in 1..Len(guesses[i]) |->
                         NSub(guesses[i][j],
                              truths[((i - 1) % Len(truths)) + 1][j])])])
         IN  IF slf.normalize
             THEN Return(DivInt(difference, Shape(guesses)[1]))
             ELSE Return(difference)

L2Distance_get_grad(slf, guesses, truths) ==
    IF Shape(guesses) # Shape(truths)
    THEN Raise(ShapeError)
    ELSE LET difference == ArrSub(guesses, truths)
         IN  IF slf.normalize
             THEN Return(DivInt(difference, Shape(guesses)[1]))
             ELSE Return(difference)

L2Distance_get_loss(slf, guesses, truths) ==
    IF Shape(guesses) # Shape(truths)
    THEN Raise(ShapeError)
    ELSE LET d_truth == L2Distance_get_grad(slf, guesses, truths)
         IN  IF d_truth.exc # NoExc THEN d_truth
             ELSE Return(SumSquares(d_truth.val[1]))

L2Distance_call(slf, guesses, truths) ==
    Both(L2Distance_get_grad(slf, guesses, truths),
         L2Distance_get_loss(slf, guesses, truths))

---------------------------------------------------------------------------
(* CosineDistance                                                          *)

CosineDistance_init(normalize, ignore_zeros) ==
    [kind |-> "CosineDistance",
     normalize |-> normalize,
     ignore_zeros |-> ignore_zeros]

\* t + 1e-8
AddEps(t) == ArrAddScalar(t, Eps)

\* xp.linalg.norm(t, axis=1, keepdims=True): one number per row.
norm(t) ==
    Tuple([i \in 1..Len(t) |->
              NSqrt(SumSeq(Tuple([j \in 1..Len(t[i]) |-> NSquare(t[i][j])])))])

\* (a * b).sum(axis=1, keepdims=True)
dot(a, b) == RowSums(ArrMul(a, b))

\* Mutant of zero_indices: the zero rows are looked for after 1e-8 was
\* added.
zero_indices_stabilized(truths) ==
    Tuple([i \in 1..Len(truths) |->
              SumSeq(Tuple([j \in 1..Len(truths[i]) |->
                               NAbs(NAdd(truths[i][j], Eps))]))
                  = Zero])

\* xp.abs(truths).sum(axis=1) == 0
zero_indices(truths) ==
    Tuple([i \in 1..Len(truths) |->
              SumSeq(Tuple([j \in 1..Len(truths[i]) |-> NAbs(truths[i][j])]))
                  = Zero])

\* The column of cosines, one row per example; also lines 224-230 of get_grad.
cosine_of(yh, y) ==
    LET norm_yh == norm(yh)
        norm_y == norm(y)
        mul_norms == Tuple([i \in 1..Len(yh) |-> NMul(norm_yh[i], norm_y[i])])
        prod == dot(yh, y)
    IN  Tuple([i \in 1..Len(yh) |-> NDiv(prod[i], mul_norms[i])])

CosineDistance_get_similarity(slf, guesses, truths) ==
    IF Shape(guesses) # Shape(truths)
    THEN Raise(ShapeError)
    ELSE LET yh == AddEps(guesses)
             y == AddEps(truths)
             cosine == cosine_of(yh, y)
         IN  Return(Tuple([i \in 1..Len(guesses) |-> <<cosine[i]>>]))

CosineDistance_get_grad(slf, guesses, truths) ==
    IF Shape(guesses) # Shape(truths)
    THEN Raise(ShapeError)
    ELSE LET zero == zero_indices(truths)
             yh == AddEps(guesses)
             y == AddEps(truths)
             norm_yh == norm(yh)
             norm_y == norm(y)
             mul_norms == Tuple([i \in 1..Len(yh) |-> NMul(norm_yh[i], norm_y[i])])
             cosine == cosine_of(yh, y)
             d_yh == Tuple([i \in 1..Len(yh) |-> Tuple([j \in 1..Len(yh[i]) |->
                         NSub(NDiv(y[i][j], mul_norms[i]),
                              NMul(cosine[i],
                                   NDiv(yh[i][j], NSquare(norm_yh[i]))))])])
             kept == IF slf.ignore_zeros
                     THEN Tuple([i \in 1..Len(yh) |-> Tuple([j \in 1..Len(yh[i]) |->
                              IF zero[i] THEN Zero ELSE d_yh[i][j]])])
                     ELSE d_yh
             normed == IF slf.normalize
                       THEN DivInt(kept, Shape(guesses)[1])
                       ELSE kept
         IN  Return(ArrNeg(normed))

\* Mutant of get_loss: the losses are not divided by the batch size.
CosineDistance_get_loss_unnormalized(slf, guesses, truths) ==
    IF Shape(guesses) # Shape(truths)
    THEN Raise(ShapeError)
    ELSE LET yh == AddEps(guesses)
             y == AddEps(truths)
             cosine == cosine_of(yh, y)
             zero == zero_indices(truths)
         IN  Return(SumSeq(Tuple([i \in 1..Len(guesses) |->
                        IF slf.ignore_zeros /\ zero[i] THEN Zero
                        ELSE NAbs(NSub(cosine[i], One))])))

CosineDistance_get_loss(slf, guesses, truths) ==
    IF Shape(guesses) # Shape(truths)
    THEN Raise(ShapeError)
    ELSE LET cosine == CosineDistance_get_similarity(slf, guesses, truths)
         IN  IF cosine.exc # NoExc THEN cosine
             ELSE LET losses == ArrAbs(ArrAddScalar(cosine.val[1], NNeg(One)))
                      zero == zero_indices(truths)
                      kept == IF slf.ignore_zeros
                              THEN Tuple([i \in 1..Len(losses) |->
                                      Tuple([j \in 1..Len(losses[i]) |->
                                          IF zero[i] THEN Zero ELSE losses[i][j]])])
                              ELSE losses
                      normed == IF slf.normalize
                                THEN DivInt(kept, Shape(guesses)[1])
                                ELSE kept
                  IN  Return(SumAll(normed))

CosineDistance_call(slf, guesses, truths) ==
    Both(CosineDistance_get_grad(slf, guesses, truths),
         CosineDistance_get_loss(slf, guesses, truths))

---------------------------------------------------------------------------
(* The batches the caller passes.                                          *)

Tensors(shape, V) == [1..shape[1] -> [1..shape[2] -> V]]

\* Sequences over V of a length in lo..hi.
RECURSIVE SeqsOf(_, _, _)
SeqsOf(V, lo, hi) ==
    IF hi < lo THEN {}
    ELSE [1..hi -> V] \cup SeqsOf(V, lo, hi - 1)

\* Name tables a kernel is constructed with: none, one of two distinct
\* names, one that repeats a name.
NameTables == {None, Some(<<"a", "b">>), Some(<<"b", "b">>)}

\* Labels passed as strings; "z" is in no table.
LabelNames == {"a", "b", "z"}

\* Class labels of a two-class batch.
Classes == {0, 1}

BatchShape == <<2, 2>>

CCE_Guesses ==
    Tensors(BatchShape, {Zero, One}) \cup Tensors(BatchShape, {One, Num(2)})

DenseTruths ==
    Tensors(BatchShape, {Zero, One}) \cup Tensors(BatchShape, {Num(-1), One})
        \cup Tensors(<<1, 2>>, {Zero, One}) \cup Tensors(<<2, 1>>, {Zero, One})

CCE_Truths ==
    {Floats2d(t) : t \in DenseTruths}
        \cup {ListInt(l) : l \in SeqsOf(Classes, 1, MaxLabels)}
        \cup {Ints1d(l) : l \in SeqsOf(Classes, 1, MaxLabels)}
        \cup {ListStr(l) : l \in SeqsOf(LabelNames, 1, MaxLabels)}

\* Masks of a batch of shape BatchShape: float masks, and arrays of row
\* indices.
Masks ==
    {FloatMask(m) : m \in Tensors(BatchShape, {Zero, One})}
        \cup {IntMask(r) : r \in {<<>>, <<0>>, <<1>>, <<0, 1>>}}

\* Calls with a mask are made on batches whose truths fit the guesses.
MaskedGuesses == Tensors(BatchShape, {One, Num(2)})
MaskedTruths ==
    {Floats2d(to_categorical(l, BatchShape[2])) : l \in [1..BatchShape[1] -> Classes]}
        \cup {ListInt(l) : l \in [1..BatchShape[1] -> Classes]}

Args(g, t, m) == [guesses |-> g, truths |-> t, missing |-> m]

CCE_Args ==
    {Args(g, t, NoMissing) : g \in CCE_Guesses, t \in CCE_Truths}
        \cup {Args(g, t, m) : g \in MaskedGuesses, t \in MaskedTruths, m \in Masks}

L2_Args == {Args(g, t, NoMissing) : g \in CCE_Guesses, t \in DenseTruths}

\* Steps of a sequence batch.
StepGuesses ==
    {<<<<One, Zero>>, <<Zero, One>>>>, <<<<One, Num(2)>>, <<Zero, Zero>>>>}
StepTruths ==
    {Floats2d(<<<<Zero, One>>, <<Zero, One>>>>), ListInt(<<0, 1>>),
     ListStr(<<"a", "b">>), Ints1d(<<1>>)}

Seq_Args ==
    {Args(g, t, NoMissing) : g \in SeqsOf(StepGuesses, 0, MaxSeq),
                             t \in SeqsOf(StepTruths, 0, MaxSeq)}

\* Rows of a cosine batch, in units of Eps.  Each is chosen so that the row
\* plus Eps has a rational norm.
CosRows ==
    {<<0, 0, 0, 0>>, <<1, -1, -1, -1>>, <<1, 1, 1, 1>>, <<0, 1, 1, 3>>,
     <<-2, -2, -2, -2>>}

CosRow(r) == [j \in 1..Len(r) |-> Q(r[j], 1, 1)]

CosTensors == {[i \in 1..Len(b) |-> CosRow(b[i])] : b \in SeqsOf(CosRows, 1, 2)}

Cos_Args == {Args(g, t, NoMissing) : g \in CosTensors, t \in CosTensors}

---------------------------------------------------------------------------
(* The caller.                                                             *)

Kernels ==
    {CategoricalCrossentropy_init(n, t) : n \in BOOLEAN, t \in NameTables}
        \cup {SequenceCategoricalCrossentropy_init(n, t) :
                n \in BOOLEAN, t \in {None, Some(<<"a", "b">>)}}
        \cup {L2Distance_init(n) : n \in BOOLEAN}
        \cup {CosineDistance_init(n, z) : n \in BOOLEAN, z \in BOOLEAN}

NoArgs == Args(<<>>, <<>>, NoMissing)
NoRet == [exc |-> NoExc, grad |-> None, loss |-> None, cosine |-> None]

\* What the caller holds after a call that yielded r.
GradRet(r) == [exc |-> r.exc, grad |-> r.val, loss |-> None, cosine |-> None]
LossRet(r) == [exc |-> r.exc, grad |-> None, loss |-> r.val, cosine |-> None]
CosineRet(r) == [exc |-> r.exc, grad |-> None, loss |-> None, cosine |-> r.val]
PairRet(r) ==
    IF r.exc # NoExc
    THEN [exc |-> r.exc, grad |-> None, loss |-> None, cosine |-> None]
    ELSE [exc |-> NoExc, grad |-> Some(r.val[1][1]), loss |-> Some(r.val[1][2]),
          cosine |-> None]

Init ==
    /\ self \in Kernels
    /\ constructed = self
    /\ pc = "idle"
    /\ op = "none"
    /\ argv = NoArgs
    /\ objs = NoArgs
    /\ ret = NoRet

\* Mutant of Called: the gradient is computed in place, in the caller's
\* guesses.
Called_inplace(name, a, r) ==
    /\ pc' = "returned"
    /\ op' = name
    /\ argv' = a
    /\ objs' = IF r.grad # None /\ r.exc = NoExc /\ self.kind # "SequenceCategoricalCrossentropy"
               THEN [a EXCEPT !.guesses = r.grad[1]]
               ELSE a
    /\ ret' = r
    /\ UNCHANGED <<self, constructed>>

\* A call of method name on arguments a that yields r.  No method assigns to
\* an attribute of self, and none writes into an argument: every array a
\* method writes into (difference, mask, d_yh, losses) is one it made.
Called(name, a, r) ==
    /\ pc' = "returned"
    /\ op' = name
    /\ argv' = a
    /\ objs' = a
    /\ ret' = r
    /\ UNCHANGED <<self, constructed>>

Idle(kind) == pc = "idle" /\ self.kind = kind

CCE_GetGrad ==
    /\ Idle("CategoricalCrossentropy")
    /\ \E a \in CCE_Args :
          Called("get_grad", a,
                 GradRet(CategoricalCrossentropy_get_grad(
                             self, a.guesses, a.truths, a.missing)))

CCE_GetLoss ==
    /\ Idle("CategoricalCrossentropy")
    /\ \E a \in CCE_Args :
          Called("get_loss", a,
                 LossRet(CategoricalCrossentropy_get_loss(
                             self, a.guesses, a.truths, a.missing)))

CCE_Call ==
    /\ Idle("CategoricalCrossentropy")
    /\ \E a \in CCE_Args :
          Called("call", a,
                 PairRet(CategoricalCrossentropy_call(
                             self, a.guesses, a.truths, a.missing)))

Seq_GetGrad ==
    /\ Idle("SequenceCategoricalCrossentropy")
    /\ \E a \in Seq_Args :
          Called("get_grad", a,
                 GradRet(SequenceCategoricalCrossentropy_get_grad(
                             self, a.guesses, a.truths)))

Seq_GetLoss ==
    /\ Idle("SequenceCategoricalCrossentropy")
    /\ \E a \in Seq_Args :
          Called("get_loss", a,
                 LossRet(SequenceCategoricalCrossentropy_get_loss(
                             self, a.guesses, a.truths)))

Seq_Call ==
    /\ Idle("SequenceCategoricalCrossentropy")
    /\ \E a \in Seq_Args :
          Called("call", a,
                 PairRet(SequenceCategoricalCrossentropy_call(
                             self, a.guesses, a.truths)))

L2_GetGrad ==
    /\ Idle("L2Distance")
    /\ \E a \in L2_Args :
          Called("get_grad", a,
                 GradRet(L2Distance_get_grad(self, a.guesses, a.truths)))

L2_GetLoss ==
    /\ Idle("L2Distance")
    /\ \E a \in L2_Args :
          Called("get_loss", a,
                 LossRet(L2Distance_get_loss(self, a.guesses, a.truths)))

L2_Call ==
    /\ Idle("L2Distance")
    /\ \E a \in L2_Args :
          Called("call", a,
                 PairRet(L2Distance_call(self, a.guesses, a.truths)))

Cos_GetSimilarity ==
    /\ Idle("CosineDistance")
    /\ \E a \in Cos_Args :
          Called("get_similarity", a,
                 CosineRet(CosineDistance_get_similarity(
                               self, a.guesses, a.truths)))

Cos_GetGrad ==
    /\ Idle("CosineDistance")
    /\ \E a \in Cos_Args :
          Called("get_grad", a,
                 GradRet(CosineDistance_get_grad(self, a.guesses, a.truths)))

Cos_GetLoss ==
    /\ Idle("CosineDistance")
    /\ \E a \in Cos_Args :
          Called("get_loss", a,
                 LossRet(CosineDistance_get_loss(self, a.guesses, a.truths)))

Cos_Call ==
    /\ Idle("CosineDistance")
    /\ \E a \in Cos_Args :
          Called("call", a,
                 PairRet(CosineDistance_call(self, a.guesses, a.truths)))

\* The caller drops the results and goes on to its next batch.
NextBatch ==
    /\ pc = "returned"
    /\ pc' = "idle"
    /\ op' = "none"
    /\ argv' = NoArgs
    /\ objs' = NoArgs
    /\ ret' = NoRet
    /\ UNCHANGED <<self, constructed>>

Next ==
    \/ CCE_GetGrad
    \/ CCE_GetLoss
    \/ CCE_Call
    \/ Seq_GetGrad
    \/ Seq_GetLoss
    \/ Seq_Call
    \/ L2_GetGrad
    \/ L2_GetLoss
    \/ L2_Call
    \/ Cos_GetSimilarity
    \/ Cos_GetGrad
    \/ Cos_GetLoss
    \/ Cos_Call
    \/ NextBatch

Spec == Init /\ [][Next]_vars

---------------------------------------------------------------------------
(* Properties.                                                             *)

CCE == "CategoricalCrossentropy"
SeqCCE == "SequenceCategoricalCrossentropy"
L2 == "L2Distance"
Cos == "CosineDistance"

Returned(kind) == pc = "returned" /\ self.kind = kind

NoResult == ret.grad = None /\ ret.loss = None /\ ret.cosine = None

\* The gradient the kernel computes for the arguments of the last call.
GradOfCall ==
    IF self.kind = CCE
    THEN CategoricalCrossentropy_get_grad(self, argv.guesses, argv.truths,
                                          argv.missing)
    ELSE L2Distance_get_grad(self, argv.guesses, argv.truths)

\* C1: for CategoricalCrossentropy and L2Distance, whenever the gradient of
\* a batch exists, get_loss (and the loss of the combined call) is the sum
\* of the squares of the elements of that gradient, for either value of
\* normalize and with or without a missing mask.
C1_LossIsSumOfSquaredGrad ==
    (pc = "returned" /\ self.kind \in {CCE, L2} /\ op \in {"get_loss", "call"})
        => (GradOfCall.exc = NoExc
              => /\ ret.exc = NoExc
                 /\ ret.loss = Some(SumSquares(GradOfCall.val[1]))
                 /\ op = "call" => ret.grad = GradOfCall.val)

C1_Witness ==
    /\ Returned(CCE)
    /\ op = "get_loss"
    /\ self.normalize
    /\ argv.missing.dtype = "f"
    /\ ret.exc = NoExc
    /\ ret.loss # Some(Zero)
    /\ ret.loss # Some(One)

\* Whether the guesses of the last call and its (converted) truths differ
\* in shape.
ShapesDiffer ==
    CASE self.kind = CCE ->
            LET conv == convert_truths(self, argv.truths, argv.guesses)
            IN  conv.exc = NoExc /\ Shape(argv.guesses) # Shape(conv.val[1])
      [] self.kind \in {L2, Cos} -> Shape(argv.guesses) # Shape(argv.truths)
      [] OTHER -> FALSE

\* C5: for CategoricalCrossentropy, L2Distance and CosineDistance, a call
\* whose guesses differ in shape from the (converted) truths raises the
\* shape error and yields neither a gradient nor a loss.
C5_ShapeMismatchRaises ==
    (pc = "returned" /\ ShapesDiffer) => (ret.exc = ShapeError /\ NoResult)

C5_Witness ==
    /\ Returned(CCE)
    /\ op = "get_loss"
    /\ argv.truths.kind = "list_int"
    /\ ShapesDiffer
    /\ ret.exc = ShapeError

\* Whether the mask of the last call excludes, or keeps, position (i, j).
Excluded(i, j) ==
    IF argv.missing.dtype = "f"
    THEN argv.missing.mask[i][j] = One
    ELSE \E k \in 1..Len(argv.missing.rows) : argv.missing.rows[k] = i - 1

Kept(i, j) ==
    IF argv.missing.dtype = "f"
    THEN argv.missing.mask[i][j] = Zero
    ELSE \A k \in 1..Len(argv.missing.rows) : argv.missing.rows[k] # i - 1

\* Guess minus truth at (i, j), over the batch size when normalize is set.
Residual(i, j) ==
    LET target == convert_truths(self, argv.truths, argv.guesses).val[1]
        d == NSub(argv.guesses[i][j], target[i][j])
    IN  IF self.normalize THEN NDiv(d, Num(Len(argv.guesses))) ELSE d

Positions ==
    {<<i, j>> : i \in 1..Len(argv.guesses), j \in 1..Len(argv.guesses[1])}

\* C7: with a missing mask, the gradient of CategoricalCrossentropy is 0 at
\* every excluded position and guess minus truth (over the batch size when
\* normalize is set) at every kept one; a mask that excludes every position
\* gives an all-zero gradient and a loss of 0.
C7_MaskZeroesGradient ==
    (Returned(CCE) /\ argv.missing.dtype # "none" /\ ret.exc = NoExc)
        => /\ op \in {"get_grad", "call"} =>
                \A p \in Positions :
                    /\ Excluded(p[1], p[2]) => ret.grad[1][p[1]][p[2]] = Zero
                    /\ Kept(p[1], p[2]) =>
                          ret.grad[1][p[1]][p[2]] = Residual(p[1], p[2])
           /\ (\A p \in Positions : Excluded(p[1], p[2])) =>
                /\ op \in {"get_grad", "call"} => AllZero(ret.grad[1])
                /\ op \in {"get_loss", "call"} => ret.loss = Some(Zero)

C7_Witness ==
    /\ Returned(CCE)
    /\ op = "call"
    /\ argv.missing.dtype = "i"
    /\ ret.exc = NoExc
    /\ \E p \in Positions : Excluded(p[1], p[2]) /\ Residual(p[1], p[2]) # Zero
    /\ \E p \in Positions : Kept(p[1], p[2]) /\ ret.grad[1][p[1]][p[2]] # Zero

\* The inner kernel on step i alone.
StepGrad(i) ==
    CategoricalCrossentropy_get_grad(
        CategoricalCrossentropy_init(self.cc.normalize, self.cc.names),
        argv.guesses[i], argv.truths[i], NoMissing)

StepLoss(i) ==
    CategoricalCrossentropy_get_loss(
        CategoricalCrossentropy_init(self.cc.normalize, self.cc.names),
        argv.guesses[i], argv.truths[i], NoMissing)

\* C8: on lists of the same length n whose steps the inner kernel accepts,
\* SequenceCategoricalCrossentropy returns n gradients and n losses, the
\* i-th being what a CategoricalCrossentropy kernel of the same
\* configuration returns for the i-th pair alone.
C8_StepwiseEqualsInner ==
    (Returned(SeqCCE) /\ Len(argv.guesses) = Len(argv.truths)
        /\ \A i \in 1..Len(argv.guesses) : StepGrad(i).exc = NoExc)
        => /\ ret.exc = NoExc
           /\ op \in {"get_grad", "call"} =>
                /\ Len(ret.grad[1]) = Len(argv.guesses)
                /\ \A i \in 1..Len(argv.guesses) :
                      StepGrad(i) = Return(ret.grad[1][i])
           /\ op \in {"get_loss", "call"} =>
                /\ Len(ret.loss[1]) = Len(argv.guesses)
                /\ \A i \in 1..Len(argv.guesses) :
                      StepLoss(i) = Return(ret.loss[1][i])

C8_Witness ==
    /\ Returned(SeqCCE)
    /\ op = "call"
    /\ ret.exc = NoExc
    /\ Len(argv.guesses) = 3
    /\ Len(ret.grad[1]) = 3
    /\ Len(ret.loss[1]) = 3
    /\ ret.loss[1][1] # ret.loss[1][2]
    /\ ret.loss[1][2] # ret.loss[1][3]

\* Whether row i of the truths of the last call is all zeros.
ZeroTruth(i) == \A j \in 1..Len(argv.truths[i]) : argv.truths[i][j] = Zero

\* The loss of row i alone, not normalized, zero rows counted.
RowLoss(i) ==
    CosineDistance_get_loss(CosineDistance_init(FALSE, FALSE),
                            <<argv.guesses[i]>>, <<argv.truths[i]>>).val[1]

\* The gradient of the batch with the same normalize, zero rows counted.
GradCountingZeros ==
    CosineDistance_get_grad(CosineDistance_init(self.normalize, FALSE),
                            argv.guesses, argv.truths).val[1]

\* C9: with ignore_zeros set, a row of CosineDistance whose truth vector is
\* all zeros has an all-zero gradient row and adds 0 to the loss, and the
\* other rows are as without the flag; without the flag a zero truth row
\* is computed, and neither get_grad nor get_loss raises.
C9_ZeroTruthRows ==
    (Returned(Cos) /\ Shape(argv.guesses) = Shape(argv.truths))
        => /\ ret.exc = NoExc
           /\ op \in {"get_grad", "call"} =>
                \A i \in 1..Len(argv.guesses) :
                    IF self.ignore_zeros /\ ZeroTruth(i)
                    THEN \A j \in 1..Len(argv.guesses[i]) :
                            ret.grad[1][i][j] = Zero
                    ELSE ret.grad[1][i] = GradCountingZeros[i]
           /\ op \in {"get_loss", "call"} =>
                ret.loss[1] =
                    SumSeq([i \in 1..Len(argv.guesses) |->
                        IF self.ignore_zeros /\ ZeroTruth(i) THEN Zero
                        ELSE IF self.normalize
                        THEN NDiv(RowLoss(i), Num(Len(argv.guesses)))
                        ELSE RowLoss(i)])

C9_Witness ==
    /\ Returned(Cos)
    /\ op = "call"
    /\ self.ignore_zeros
    /\ ret.exc = NoExc
    /\ Len(argv.guesses) = 2
    /\ ZeroTruth(1)
    /\ ~ZeroTruth(2)
    /\ \E j \in 1..Len(argv.guesses[1]) : GradCountingZeros[1][j] # Zero
    /\ RowLoss(1) # Zero
    /\ \E j \in 1..Len(argv.guesses[2]) : ret.grad[1][2][j] # Zero

\* What method o of kernel k yields on arguments a.
Outcome(k, o, a) ==
    CASE k.kind = CCE /\ o = "get_grad" ->
            GradRet(CategoricalCrossentropy_get_grad(k, a.guesses, a.truths, a.missing))
      [] k.kind = CCE /\ o = "get_loss" ->
            LossRet(CategoricalCrossentropy_get_loss(k, a.guesses, a.truths, a.missing))
      [] k.kind = CCE /\ o = "call" ->
            PairRet(CategoricalCrossentropy_call(k, a.guesses, a.truths, a.missing))
      [] k.kind = SeqCCE /\ o = "get_grad" ->
            GradRet(SequenceCategoricalCrossentropy_get_grad(k, a.guesses, a.truths))
      [] k.kind = SeqCCE /\ o = "get_loss" ->
            LossRet(SequenceCategoricalCrossentropy_get_loss(k, a.guesses, a.truths))
      [] k.kind = SeqCCE /\ o = "call" ->
            PairRet(SequenceCategoricalCrossentropy_call(k, a.guesses, a.truths))
      [] k.kind = L2 /\ o = "get_grad" ->
            GradRet(L2Distance_get_grad(k, a.guesses, a.truths))
      [] k.kind = L2 /\ o = "get_loss" ->
            LossRet(L2Distance_get_loss(k, a.guesses, a.truths))
      [] k.kind = L2 /\ o = "call" ->
            PairRet(L2Distance_call(k, a.guesses, a.truths))
      [] k.kind = Cos /\ o = "get_similarity" ->
            CosineRet(CosineDistance_get_similarity(k, a.guesses, a.truths))
      [] k.kind = Cos /\ o = "get_grad" ->
            GradRet(CosineDistance_get_grad(k, a.guesses, a.truths))
      [] k.kind = Cos /\ o = "get_loss" ->
            LossRet(CosineDistance_get_loss(k, a.guesses, a.truths))
      [] k.kind = Cos /\ o = "call" ->
            PairRet(CosineDistance_call(k, a.guesses, a.truths))

CosSimilarity ==
    CosineDistance_get_similarity(self, argv.guesses, argv.truths).val[1]

\* The distance of row i from perfect similarity, as get_loss counts it.
RowDistance(i) ==
    LET d == IF self.ignore_zeros /\ ZeroTruth(i) THEN Zero
             ELSE NAbs(NSub(CosSimilarity[i][1], One))
    IN  IF self.normalize THEN NDiv(d, Num(Len(argv.guesses))) ELSE d

\* C2, as stated: the loss of CosineDistance is the sum of the absolute
\* values of the elements of its gradient.
C2_LossIsSumOfAbsGrad ==
    (Returned(Cos) /\ op = "call" /\ ret.exc = NoExc)
        => ret.loss[1] = SumAbs(ret.grad[1])

\* C2, amended: the loss of CosineDistance is the sum over the rows of
\* |cosine - 1|, with 0 for the rows ignore_zeros excludes and over the batch
\* size when normalize is set; and when that loss is 0 the gradient is all
\* zeros.
C2_LossIsSumOfRowDistances ==
    (Returned(Cos) /\ op \in {"get_loss", "call"} /\ ret.exc = NoExc)
        => /\ ret.loss[1] =
                SumSeq(Tuple([i \in 1..Len(argv.guesses) |-> RowDistance(i)]))
           /\ (op = "call" /\ ret.loss[1] = Zero) => AllZero(ret.grad[1])

C2_Witness ==
    /\ Returned(Cos)
    /\ op = "call"
    /\ self.normalize
    /\ ret.exc = NoExc
    /\ Len(argv.guesses) = 2
    /\ ret.loss[1] # Zero
    /\ ret.loss[1] # SumAbs(ret.grad[1])
    /\ RowDistance(1) # Zero
    /\ RowDistance(2) # Zero

\* C3, as stated: on lists of different lengths every method of
\* SequenceCategoricalCrossentropy raises the shape error and returns no
\* sequence, not even a truncated one.
C3_LengthMismatchRaises ==
    (Returned(SeqCCE) /\ Len(argv.guesses) # Len(argv.truths))
        => (ret.exc \in {LengthError, ShapeError} /\ NoResult)

\* Whether x lies outside the interval [0, 1].
OutOfUnit(x) == x.n < 0 \/ x.n > x.d

\* C4, as stated: CategoricalCrossentropy raises the range error, and
\* returns no gradient, whenever the guesses or the converted truths hold a
\* value outside [0, 1].
C4_OutOfRangeRaises ==
    (Returned(CCE) /\ convert_truths(self, argv.truths, argv.guesses).exc = NoExc
        /\ ~ShapesDiffer
        /\ LET target == convert_truths(self, argv.truths, argv.guesses).val[1]
           IN  \E p \in Positions :
                   \/ OutOfUnit(argv.guesses[p[1]][p[2]])
                   \/ OutOfUnit(target[p[1]][p[2]]))
        => (ret.exc = RangeError /\ NoResult)

\* The row that is 1.0 at class i and 0.0 elsewhere.
OneHot(i, n_classes) ==
    Tuple([j \in 1..n_classes |-> IF j - 1 = i THEN One ELSE Zero])

\* Whether some label of the last call is not in the kernel's name table.
AbsentLabel ==
    \E k \in 1..Len(argv.truths.strs) :
        \A i \in 1..Len(self.names[1]) : self.names[1][i] # argv.truths.strs[k]

\* The last position of label nm in the name table, counted from 0.
LastIndex(nm) ==
    CHOOSE i \in 0..(Len(self.names[1]) - 1) :
        /\ self.names[1][i + 1] = nm
        /\ \A k \in (i + 2)..Len(self.names[1]) : self.names[1][k] # nm

\* C6, as stated: string truths passed to a kernel without names, or holding
\* a label that is not in the table, raise the configuration error and
\* return nothing; otherwise label names[i] is converted to class i.
C6_StringTruthsByNameTable ==
    (Returned(CCE) /\ argv.truths.kind = "list_str")
        => IF self.names = None \/ AbsentLabel
           THEN ret.exc = ConfigurationError /\ NoResult
           ELSE LET conv == convert_truths(self, argv.truths, argv.guesses)
                IN  /\ conv.exc = NoExc
                    /\ \A k \in 1..Len(argv.truths.strs) :
                         \A i \in 0..(Len(self.names[1]) - 1) :
                            self.names[1][i + 1] = argv.truths.strs[k]
                               => conv.val[1][k] = OneHot(i, Len(argv.guesses[1]))

\* C6, amended: string truths passed to a kernel without names raise the
\* configuration error, a label that is not in the table raises a KeyError,
\* and either way nothing is returned; otherwise every label is converted to
\* the last index it has in names, which is i for names[i] when the names
\* are distinct.  The sequence kernel without names raises the configuration
\* error on a first step of string truths.
C6_StringTruthsLastIndex ==
    /\ (Returned(CCE) /\ argv.truths.kind = "list_str")
        => IF self.names = None
           THEN ret.exc = ConfigurationError /\ NoResult
           ELSE IF AbsentLabel
           THEN ret.exc = KeyError /\ NoResult
           ELSE LET conv == convert_truths(self, argv.truths, argv.guesses)
                IN  /\ conv.exc = NoExc
                    /\ \A k \in 1..Len(argv.truths.strs) :
                         conv.val[1][k] =
                            OneHot(LastIndex(argv.truths.strs[k]),
                                   Len(argv.guesses[1]))
    /\ (Returned(SeqCCE) /\ self.cc.names = None
            /\ Len(argv.guesses) >= 1 /\ Len(argv.truths) >= 1
            /\ (op = "get_loss" \/ Len(argv.guesses) = Len(argv.truths))
            /\ argv.truths[1].kind = "list_str")
        => (ret.exc = ConfigurationError /\ NoResult)

C6_Witness ==
    /\ Returned(CCE)
    /\ op = "call"
    /\ argv.truths.kind = "list_str"
    /\ self.names = Some(<<"a", "b">>)
    /\ argv.truths.strs = <<"b", "z">>
    /\ ret.exc = KeyError

==========================================================================
